---- MODULE Spec2Model ----
(***************************************************************************)
(* State-machine model of the invoice digitizer: the App component         *)
(* (src/unnamed/part_002, the current App.tsx followed by types.ts) and    *)
(* the extraction service (src/services/geminiService.ts, lines 1-92).     *)
(*                                                                         *)
(* Conventions                                                             *)
(*   - a nullable or optional value is a sequence of length 0 or 1:        *)
(*     None = <<>> (null / undefined / absent), Some(x) = <<x>>;           *)
(*   - monetary numbers are integers in thousandths of a currency unit     *)
(*     (0.01 is 10); the IEEE-754 rounding of the doubles the program      *)
(*     computes with is not represented;                                   *)
(*   - a JavaScript number that may be NaN is [nan, v];                    *)
(*   - a string that is inspected character by character (a currency       *)
(*     code) is a sequence of one-character strings.                       *)
(***************************************************************************)
EXTENDS Integers, Sequences, FiniteSets, TLC

None == <<>>
Some(x) == <<x>>

(***************************************************************************)
(* Bounds of the model.                                                    *)
(***************************************************************************)
\* accepted extraction triggers (and direct service calls) per behaviour
MaxCalls == 2
\* line items per response
MaxItems == 2
\* canvas.toBlob callbacks pending at a time
MaxPending == 1
\* length of the currency strings given to getSafeCurrencyCode
MaxCodeLen == 4
\* object URLs that exist at a time
MaxUrls == 2
\* sessions (mounts of the App over the same local storage) per behaviour
MaxSessions == 2

(***************************************************************************)
(* Program constants.                                                      *)
(***************************************************************************)
API_KEY_STORAGE_KEY == "gemini-api-key"
MODEL_STORAGE_KEY == "gemini-model-selection"
models == {"gemini-2.5-pro", "gemini-2.5-flash", "gemini-flash-lite-latest"}
DefaultModel == "gemini-2.5-flash"
DefaultCurrency == <<"M", "Y", "R">>
SentinelVendor == "Invalid Document"
\* the epsilon 0.01 of the totals check, in thousandths
Tolerance == 10

MsgNoFile == "Please upload an invoice image first."
MsgNoKey == "Please enter your Gemini API key before digitizing."
MsgInvalidFallback == "The uploaded image does not appear to be a valid invoice. Please try another image."
MsgUnknown == "An unknown error occurred during digitization."
MsgConfig == "Gemini API key is not set. Please enter your API key."
MsgParse == "Failed to parse invoice data. The AI model returned an unexpected format."
\* message of the TypeError raised by reading a property of null
MsgTypeError == "Cannot read properties of null (reading 'vendorName')"

(***************************************************************************)
(* Input domains.                                                          *)
(***************************************************************************)
\* the files an upload, a drop or a capture delivers
Files == {"f1"}
ApiKeys == {"k1"}
\* the keys typed where a saved key is replaced by another one
EditedKeys == {"k1", "k2"}
\* the models the user picks in the selector
ModelChoices == {"gemini-2.5-pro"}
\* values found under the model key at start-up: none, the empty string, a
\* model of the set, a name outside it, a name every object inherits
StoredModels ==
  {None, Some(""), Some("gemini-flash-lite-latest"), Some("bogus-model"),
   Some("constructor")}
StoredKeys == {None, Some("k1")}
TransportMessages == {"503 model overloaded"}
\* characters of the currency strings: a lower-case letter, an upper-case
\* letter, another lower-case letter, a digit
Chars == {"u", "U", "S", "d", "1"}
Amounts == {10000}
Taxes == {None, Some(1500)}
Totals == {21500, 21510, 21511}
Notes == {None, Some(""), Some("see note")}
InvoiceNotes == {None, Some("see note")}
Currencies == {None, Some(<<"u", "S", "d">>)}

(***************************************************************************)
(* Strings and currency codes (part_002 lines 15-22).                      *)
(***************************************************************************)
LowerAlphabet ==
  <<"a", "b", "c", "d", "e", "f", "g", "h", "i", "j", "k", "l", "m",
    "n", "o", "p", "q", "r", "s", "t", "u", "v", "w", "x", "y", "z">>
UpperAlphabet ==
  <<"A", "B", "C", "D", "E", "F", "G", "H", "I", "J", "K", "L", "M",
    "N", "O", "P", "Q", "R", "S", "T", "U", "V", "W", "X", "Y", "Z">>

IsLower(ch) == \E i \in 1..26 : LowerAlphabet[i] = ch
IsUpper(ch) == \E i \in 1..26 : UpperAlphabet[i] = ch

\* a mutant: the test lacks its end anchor, /^[a-zA-Z]{3}/
MatchesThreeLetterPrefix(s) ==
  /\ Len(s) >= 3
  /\ \A i \in 1..3 : IsLower(s[i]) \/ IsUpper(s[i])

\* the test /^[a-zA-Z]{3}$/ on a string
MatchesThreeLetters(s) ==
  /\ Len(s) = 3
  /\ \A i \in 1..3 : IsLower(s[i]) \/ IsUpper(s[i])

\* String.prototype.toUpperCase on the characters of the model
ToUpperChar(ch) ==
  IF IsLower(ch)
    THEN UpperAlphabet[CHOOSE i \in 1..26 : LowerAlphabet[i] = ch]
    ELSE ch

toUpperCase(s) == [i \in 1..Len(s) |-> ToUpperChar(s[i])]

\* a mutant: the code is returned as it came
getSafeCurrencyCodeRaw(code) ==
  IF code # None /\ Len(code[1]) > 0 /\ MatchesThreeLetters(code[1])
    THEN code[1]
    ELSE DefaultCurrency

\* code is None (undefined or null) or Some(string)
getSafeCurrencyCode(code) ==
  IF code # None /\ Len(code[1]) > 0 /\ MatchesThreeLetters(code[1])
    THEN toUpperCase(code[1])
    ELSE DefaultCurrency

(***************************************************************************)
(* JavaScript numbers, with NaN.                                           *)
(***************************************************************************)
Num(n) == [nan |-> FALSE, v |-> n]
NaN == [nan |-> TRUE, v |-> 0]
\* the number an optional numeric field reads as, in an addition: undefined
\* converts to NaN
FieldNum(f) == IF f = None THEN NaN ELSE Num(f[1])
NumAdd(a, b) == IF a.nan \/ b.nan THEN NaN ELSE Num(a.v + b.v)
NumSub(a, b) == IF a.nan \/ b.nan THEN NaN ELSE Num(a.v - b.v)
NumAbs(a) == IF a.nan THEN NaN ELSE Num(IF a.v < 0 THEN 0 - a.v ELSE a.v)
\* a > n: false when a is NaN
NumGt(a, n) == ~a.nan /\ a.v > n

\* new Intl.NumberFormat('en-US', {style: 'currency', currency}): a RangeError
\* unless the code is three ASCII letters; the code is kept in upper case
NumberFormat(currency) ==
  IF MatchesThreeLetters(currency)
    THEN [threw |-> FALSE, currency |-> toUpperCase(currency)]
    ELSE [threw |-> TRUE, currency |-> <<>>]

\* formatter.format(n) for a non-negative amount: the currency and the amount
\* rounded to cents, half up
CurrencyFormat(formatter, n) ==
  [currency |-> formatter.currency, cents |-> (n + 5) \div 10]

(***************************************************************************)
(* Responses of the model endpoint.                                        *)
(***************************************************************************)
LineItems == [amount : Amounts]
LineItemSeqs == UNION {[1..n -> LineItems] : n \in 0..MaxItems}

\* an invoice whose items and tax miss the stated total by 0.011
BaseInvoice ==
  [vendorName |-> "Acme", notes |-> Some("see note"), taxAmount |-> Some(1500),
   totalAmount |-> 21511, currency |-> Some(<<"u", "S", "d">>),
   lineItems |-> Some(<<[amount |-> 10000], [amount |-> 10000]>>)]

\* JSON objects the endpoint may answer with: BaseInvoice and the objects that
\* differ from it in one field. The declared output shape does not require
\* taxAmount, notes or dueDate (geminiService.ts line 78), and nothing makes
\* the endpoint keep to the shape: lineItems may be missing too
InvoiceObjects ==
  {[BaseInvoice EXCEPT !.notes = n] : n \in InvoiceNotes}
    \cup {[BaseInvoice EXCEPT !.taxAmount = t] : t \in Taxes}
    \cup {[BaseInvoice EXCEPT !.totalAmount = t] : t \in Totals}
    \cup {[BaseInvoice EXCEPT !.currency = c] : c \in Currencies}
    \cup {[BaseInvoice EXCEPT !.lineItems = q] : q \in {None} \cup {Some(q) : q \in LineItemSeqs}}

\* the answer the prompt asks for when the image is no invoice
SentinelObjects ==
  [vendorName : {SentinelVendor}, notes : Notes, taxAmount : {None},
   totalAmount : {0}, currency : {Some(<<"U", "S", "D">>)},
   lineItems : {Some(<<>>)}]

NoObject ==
  [vendorName |-> "", notes |-> None, taxAmount |-> None, totalAmount |-> 0,
   currency |-> None, lineItems |-> None]

\* response.text: undefined, text that is no JSON, the JSON text null, or the
\* JSON text of an object
ResponseTexts ==
  {[kind |-> k, value |-> NoObject] : k \in {"undefined", "malformed", "null"}}
    \cup {[kind |-> "object", value |-> o] : o \in InvoiceObjects \cup SentinelObjects}

\* one answer that is shown as a result and one that is not
PlainResponses ==
  {[kind |-> "malformed", value |-> NoObject],
   [kind |-> "object", value |-> BaseInvoice]}

\* what generateContent may reject with: an Error with a message, or a value
\* that is no Error
Thrown ==
  {[isError |-> TRUE, message |-> m] : m \in TransportMessages}
    \cup {[isError |-> FALSE, message |-> ""]}

(***************************************************************************)
(* The extraction service (geminiService.ts lines 4-92).                   *)
(***************************************************************************)
\* the payload is a sequence of chunks: <<>> is the empty string
fileToGenerativePart(file, readOk) ==
  [data |-> IF readOk THEN <<file>> ELSE <<>>, mimeType |-> "image/*"]

\* lines 23-25
digitizeInvoiceThrowsConfig(key) == key = ""

\* lines 83-91: response.text.trim(), JSON.parse, cast to InvoiceData
ParseResponse(text) ==
  IF text.kind \in {"undefined", "malformed"}
    THEN [threw |-> TRUE, message |-> MsgParse, isNull |-> FALSE, data |-> NoObject]
    ELSE [threw |-> FALSE, message |-> "", isNull |-> text.kind = "null",
          data |-> text.value]

(***************************************************************************)
(* The totals check of handleDigitize (part_002 lines 485-497).            *)
(***************************************************************************)
RECURSIVE SumAmounts(_)
SumAmounts(items) ==
  IF items = <<>> THEN 0 ELSE items[1].amount + SumAmounts(Tail(items))

\* lineItems.reduce((sum, item) => sum + item.amount, 0)
lineItemsTotal(data) == Num(SumAmounts(data.lineItems[1]))
calculatedTotal(data) == NumAdd(lineItemsTotal(data), FieldNum(data.taxAmount))
difference(data) == NumAbs(NumSub(calculatedTotal(data), Num(data.totalAmount)))

\* line 493
warningFormatter(data) == NumberFormat(getSafeCurrencyCode(data.currency))

\* line 494: the two formatted amounts the message is built from
warningMessage(data) ==
  [calculated |-> CurrencyFormat(warningFormatter(data), calculatedTotal(data).v),
   stated |-> CurrencyFormat(warningFormatter(data), data.totalAmount)]

\* lines 332-335: the formatter of the result table
tableFormatter(data) == NumberFormat(getSafeCurrencyCode(data.currency))

\* None when setDiscrepancyWarning is not called
discrepancy(data) ==
  IF data.lineItems # None /\ NumGt(difference(data), Tolerance)
    THEN Some(warningMessage(data))
    ELSE None

\* data.notes || fallback
Truthy(optString) == optString # None /\ optString[1] # ""

(***************************************************************************)
(* State.                                                                  *)
(***************************************************************************)
VARIABLES
  apiKey,              \* App state (part_002 lines 409-417)
  selectedModel,
  imageFile,
  extractedData,
  isLoading,
  error,
  cameraActive,
  discrepancyWarning,
  aiNote,
  localApiKey,         \* ApiKeyManager state (lines 30-31)
  isEditing,
  localStorage,        \* window.localStorage: a function from the keys present
                       \* to their values
  imageUrl,            \* the object URL of the preview (lines 435-440)
  objectUrls,          \* object URLs created and not revoked
  session,             \* mounts of the App so far
  calls,               \* invocations of digitizeInvoice that have not settled
  issued,              \* invocations of digitizeInvoice that got past line 25
  outbound,            \* generateContent requests sent
  pendingBlobs,        \* canvas.toBlob callbacks not yet delivered
  lastEvent,           \* history: the last handler that wrote the file, the
                       \* extraction slots or the calls, and its input
  probe                \* the last application of a formatting function

appVars ==
  <<apiKey, selectedModel, imageFile, extractedData, isLoading, error,
    cameraActive, discrepancyWarning, aiNote>>
keyVars == <<localApiKey, isEditing>>
callVars == <<calls, issued, outbound>>
urlVars == <<imageUrl, objectUrls>>
vars ==
  <<apiKey, selectedModel, imageFile, extractedData, isLoading, error,
    cameraActive, discrepancyWarning, aiNote, localApiKey, isEditing,
    localStorage, imageUrl, objectUrls, session, calls, issued, outbound,
    pendingBlobs, lastEvent, probe>>

NoProbe ==
  [fn |-> "none", input |-> None, before |-> None, threw |-> FALSE, currency |-> <<>>]

\* op: the handler; origin: who made the call that settled; text, thrown: what
\* the call settled with; payload: the image data sent; key: the credential
\* given to the service; held: whether a result, error, warning or note was
\* held when a file was selected
Ev(op) ==
  [op |-> op, origin |-> "app", text |-> None, thrown |-> None, payload |-> <<>>,
   key |-> "", held |-> FALSE]

SlotsHeld ==
  extractedData # None \/ error # None \/ discrepancyWarning # None \/ aiNote # None

\* own properties of the models object, and names every object inherits:
\* models[savedModel] is truthy for both
ObjectPrototypeKeys == {"constructor", "toString"}
ModelsLookupTruthy(name) == name \in models \cup ObjectPrototypeKeys

\* Storage.getItem and Storage.setItem
getItem(store, key) == IF key \in DOMAIN store THEN Some(store[key]) ELSE None
setItem(store, key, value) ==
  [k \in DOMAIN store \cup {key} |-> IF k = key THEN value ELSE store[k]]

\* the local storage a session starts with
StorageWith(sk, sm) ==
  [k \in {x \in {API_KEY_STORAGE_KEY} : sk # None}
          \cup {x \in {MODEL_STORAGE_KEY} : sm # None}
     |-> IF k = API_KEY_STORAGE_KEY THEN sk[1] ELSE sm[1]]

\* lines 409 and 420-423: apiKey after the effect that loads the settings
loadedApiKey(store) ==
  IF Truthy(getItem(store, API_KEY_STORAGE_KEY))
    THEN getItem(store, API_KEY_STORAGE_KEY)[1]
    ELSE ""

\* lines 410 and 424-427: selectedModel after the effect
loadedModel(store) ==
  IF /\ Truthy(getItem(store, MODEL_STORAGE_KEY))
     /\ ModelsLookupTruthy(getItem(store, MODEL_STORAGE_KEY)[1])
    THEN getItem(store, MODEL_STORAGE_KEY)[1]
    ELSE DefaultModel

\* lines 409-428: the initial state, then the effect that loads the settings
Mounted(sk, sm) ==
    /\ localStorage = StorageWith(sk, sm)
    /\ apiKey = loadedApiKey(StorageWith(sk, sm))
    /\ selectedModel = loadedModel(StorageWith(sk, sm))
    /\ imageUrl = None
    /\ objectUrls = {}
    /\ session = 1
    /\ imageFile = None
    /\ extractedData = None
    /\ isLoading = FALSE
    /\ error = None
    /\ cameraActive = FALSE
    /\ discrepancyWarning = None
    /\ aiNote = None
    /\ localApiKey = ""
    /\ isEditing = FALSE
    /\ calls = {}
    /\ issued = 0
    /\ outbound = 0
    /\ pendingBlobs = 0
    /\ lastEvent = Ev("init")

\* a first session with no model stored
Init ==
  /\ \E sk \in StoredKeys : Mounted(sk, None)
  /\ probe = NoProbe

\* a first session over any stored settings
InitSettings ==
  /\ \E sk \in StoredKeys, sm \in StoredModels : Mounted(sk, sm)
  /\ probe = NoProbe

(***************************************************************************)
(* What is on screen (part_002 lines 47, 542-576).                         *)
(***************************************************************************)
KeyFormShown == ~(apiKey # "" /\ ~isEditing)
UploadShown == imageFile = None /\ ~cameraActive
CameraShown == imageFile = None /\ cameraActive
ClearShown == imageFile # None
\* the Digitize button is not disabled (line 553)
DigitizeEnabled == imageFile # None /\ ~isLoading /\ apiKey # ""

\* ExtractedDataDisplay (lines 295-357): the spinner, else the error panel,
\* else the placeholder, else the result with the note and the warning
SpinnerShown == isLoading
ErrorShown == ~isLoading /\ Truthy(error)
ResultShown == ~isLoading /\ ~Truthy(error) /\ extractedData # None
NoteShown == ResultShown /\ Truthy(aiNote)
WarningShown == ResultShown /\ discrepancyWarning # None

(***************************************************************************)
(* Settings.                                                               *)
(***************************************************************************)
\* a mutant: the choice is not stored
handleModelChangeNotStored(model) ==
  /\ UNCHANGED <<urlVars, session>>
  /\ selectedModel' = model
  /\ UNCHANGED <<apiKey, imageFile, extractedData, isLoading, error, cameraActive,
                 discrepancyWarning, aiNote, keyVars, callVars, pendingBlobs, probe,
                 localStorage, lastEvent>>

\* lines 430-433, from the select of ModelSelector
handleModelChange(model) ==
  /\ UNCHANGED <<urlVars, session>>
  /\ selectedModel' = model
  /\ localStorage' = setItem(localStorage, MODEL_STORAGE_KEY, model)
  /\ UNCHANGED <<apiKey, imageFile, extractedData, isLoading, error, cameraActive,
                 discrepancyWarning, aiNote, keyVars, callVars, pendingBlobs, probe>>
  /\ UNCHANGED lastEvent

\* line 65, the key input
TypeKey(k) ==
  /\ UNCHANGED <<urlVars, session>>
  /\ KeyFormShown
  /\ k # localApiKey
  /\ localApiKey' = k
  /\ UNCHANGED <<appVars, isEditing, localStorage, callVars, pendingBlobs, probe>>
  /\ UNCHANGED lastEvent

\* a mutant: the key saved is handed to the calls in flight
handleSaveRekeysCalls ==
  /\ UNCHANGED <<urlVars, session>>
  /\ KeyFormShown
  /\ localApiKey # ""
  /\ apiKey' = localApiKey
  /\ localStorage' = setItem(localStorage, API_KEY_STORAGE_KEY, localApiKey)
  /\ isEditing' = FALSE
  /\ calls' = {[c EXCEPT !.apiKey = localApiKey] : c \in calls}
  /\ UNCHANGED <<selectedModel, imageFile, extractedData, isLoading, error,
                 cameraActive, discrepancyWarning, aiNote, localApiKey, issued,
                 outbound, pendingBlobs, probe>>
  /\ UNCHANGED lastEvent

\* lines 34-40; the button is disabled while the input is empty (line 73).
\* The transient "Saved!" label (saved, and its timer) is not part of the state.
handleSave ==
  /\ UNCHANGED <<urlVars, session>>
  /\ KeyFormShown
  /\ localApiKey # ""
  /\ apiKey' = localApiKey
  /\ localStorage' = setItem(localStorage, API_KEY_STORAGE_KEY, localApiKey)
  /\ isEditing' = FALSE
  /\ UNCHANGED <<selectedModel, imageFile, extractedData, isLoading, error,
                 cameraActive, discrepancyWarning, aiNote, localApiKey, callVars,
                 pendingBlobs, probe>>
  /\ UNCHANGED lastEvent

\* lines 42-45
handleEdit ==
  /\ UNCHANGED <<urlVars, session>>
  /\ ~KeyFormShown
  /\ localApiKey' = apiKey
  /\ isEditing' = TRUE
  /\ UNCHANGED <<appVars, localStorage, callVars, pendingBlobs, probe>>
  /\ UNCHANGED lastEvent

\* A new session: the page is loaded again over the same local storage
\* (lines 409-428). The state of the session before, its calls in flight and
\* its object URLs go with the page that held them.
Reload ==
  /\ session < MaxSessions
  /\ session' = session + 1
  /\ apiKey' = loadedApiKey(localStorage)
  /\ selectedModel' = loadedModel(localStorage)
  /\ imageFile' = None
  /\ extractedData' = None
  /\ isLoading' = FALSE
  /\ error' = None
  /\ cameraActive' = FALSE
  /\ discrepancyWarning' = None
  /\ aiNote' = None
  /\ localApiKey' = ""
  /\ isEditing' = FALSE
  /\ imageUrl' = None
  /\ objectUrls' = {}
  /\ calls' = {}
  /\ pendingBlobs' = 0
  /\ lastEvent' = Ev("init")
  /\ UNCHANGED <<localStorage, issued, outbound, probe>>

(***************************************************************************)
(* File selection and camera.                                              *)
(***************************************************************************)
\* a mutant: the previous result is kept
handleFileSelectKeepsResult(file) ==
  /\ imageFile' = Some(file)
  /\ error' = None
  /\ discrepancyWarning' = None
  /\ aiNote' = None
  /\ UNCHANGED extractedData

UrlIds == 1..MaxUrls
\* URL.createObjectURL gives a URL that no other live object has
FreshUrl == CHOOSE u \in UrlIds \ objectUrls : \A v \in UrlIds \ objectUrls : u <= v

\* lines 435-440: imageFile has changed to a File, which is never the object
\* selected before, so useMemo creates a URL for it; the URL held before is
\* dropped without being revoked
imageUrlMemo ==
  /\ UrlIds \ objectUrls # {}
  /\ imageUrl' = Some(FreshUrl)
  /\ objectUrls' = objectUrls \cup {FreshUrl}

\* lines 442-448
handleFileSelect(file) ==
  /\ imageFile' = Some(file)
  /\ extractedData' = None
  /\ error' = None
  /\ discrepancyWarning' = None
  /\ aiNote' = None

\* lines 134-147: the file input (disabled while loading) and a drop
\* (ignored while loading) of FileUploadArea
FileSelect(file) ==
  /\ UploadShown
  /\ ~isLoading
  /\ handleFileSelect(file)
  /\ imageUrlMemo
  /\ lastEvent' = [Ev("select") EXCEPT !.held = SlotsHeld]
  /\ UNCHANGED session
  /\ UNCHANGED <<apiKey, selectedModel, isLoading, cameraActive, keyVars,
                 localStorage, callVars, pendingBlobs, probe>>

\* line 547, the Use Camera button (disabled while loading)
UseCamera ==
  /\ UNCHANGED <<urlVars, session>>
  /\ UploadShown
  /\ ~isLoading
  /\ cameraActive' = TRUE
  /\ UNCHANGED <<apiKey, selectedModel, imageFile, extractedData, isLoading, error,
                 discrepancyWarning, aiNote, keyVars, localStorage, callVars,
                 pendingBlobs, probe>>
  /\ lastEvent' = Ev("camera")

\* line 545, Cancel of CameraCapture
CameraCancel ==
  /\ UNCHANGED <<urlVars, session>>
  /\ CameraShown
  /\ cameraActive' = FALSE
  /\ UNCHANGED <<apiKey, selectedModel, imageFile, extractedData, isLoading, error,
                 discrepancyWarning, aiNote, keyVars, localStorage, callVars,
                 pendingBlobs, probe>>
  /\ lastEvent' = Ev("camera")

\* lines 223-239, Snap Photo: canvas.toBlob is started, its callback comes later
SnapPhoto ==
  /\ UNCHANGED <<urlVars, session>>
  /\ CameraShown
  /\ pendingBlobs < MaxPending
  /\ pendingBlobs' = pendingBlobs + 1
  /\ UNCHANGED <<appVars, keyVars, localStorage, callVars, probe>>
  /\ UNCHANGED lastEvent

\* lines 231-236 and 450-453: the toBlob callback; with a blob it calls
\* App.handleCapture, with null it does nothing
BlobDelivered(hasBlob, file) ==
  /\ pendingBlobs > 0
  /\ pendingBlobs' = pendingBlobs - 1
  /\ IF hasBlob
       THEN /\ handleFileSelect(file)
            /\ imageUrlMemo
            /\ cameraActive' = FALSE
            /\ lastEvent' = [Ev("capture") EXCEPT !.held = SlotsHeld]
       ELSE /\ UNCHANGED <<lastEvent, imageFile, extractedData, error, discrepancyWarning,
                           aiNote, cameraActive, urlVars>>
  /\ UNCHANGED session
  /\ UNCHANGED <<apiKey, selectedModel, isLoading, keyVars, localStorage, callVars, probe>>

\* a mutant: the loading flag is not reset
handleResetKeepsLoading ==
  /\ imageFile' = None
  /\ extractedData' = None
  /\ error' = None
  /\ cameraActive' = FALSE
  /\ discrepancyWarning' = None
  /\ aiNote' = None
  /\ objectUrls' = IF imageUrl # None THEN objectUrls \ {imageUrl[1]} ELSE objectUrls
  /\ imageUrl' = None
  /\ UNCHANGED isLoading

\* lines 510-521: the setters and the revocation of the preview URL; imageFile
\* being null, useMemo (lines 435-440) then yields no URL
handleReset ==
  /\ imageFile' = None
  /\ extractedData' = None
  /\ error' = None
  /\ isLoading' = FALSE
  /\ cameraActive' = FALSE
  /\ discrepancyWarning' = None
  /\ aiNote' = None
  /\ objectUrls' = IF imageUrl # None THEN objectUrls \ {imageUrl[1]} ELSE objectUrls
  /\ imageUrl' = None

\* a mutant: the reset also drops the calls in flight
ClickClearCancels ==
  /\ ClearShown
  /\ handleReset
  /\ lastEvent' = Ev("reset")
  /\ calls' = {}
  /\ UNCHANGED <<apiKey, selectedModel, keyVars, localStorage, issued, outbound,
                 pendingBlobs, probe, session>>

\* line 571, the Clear button
ClickClear ==
  /\ ClearShown
  /\ handleReset
  /\ lastEvent' = Ev("reset")
  /\ UNCHANGED session
  /\ UNCHANGED <<apiKey, selectedModel, keyVars, localStorage, callVars, pendingBlobs, probe>>

(***************************************************************************)
(* Extraction: handleDigitize (part_002 lines 455-508) and the steps of    *)
(* digitizeInvoice (geminiService.ts lines 22-92).                         *)
(***************************************************************************)
NewCall(origin, file, key, model) ==
  [id |-> issued + 1, origin |-> origin, file |-> file, apiKey |-> key,
   model |-> model, pc |-> "encoding"]

\* digitizeInvoice up to its first await (lines 27-29): the file is being read
StartCall(origin, file, key, model) ==
  /\ calls' = calls \cup {NewCall(origin, file, key, model)}
  /\ issued' = issued + 1
  /\ UNCHANGED outbound

\* a mutant: the finally block is missing
handleDigitizeCatchKeepsLoading(isError, message) ==
  /\ error' = Some(IF isError THEN message ELSE MsgUnknown)
  /\ UNCHANGED <<isLoading, extractedData, discrepancyWarning, aiNote>>

\* lines 499-507: catch and finally
handleDigitizeCatch(isError, message) ==
  /\ error' = Some(IF isError THEN message ELSE MsgUnknown)
  /\ isLoading' = FALSE
  /\ UNCHANGED <<extractedData, discrepancyWarning, aiNote>>

\* a mutant: the sentinel branch returns before the loading flag is reset
handleDigitizeResolvedSentinelKeepsLoading(p) ==
  IF p.isNull
    THEN handleDigitizeCatch(TRUE, MsgTypeError)
    ELSE IF p.data.vendorName = SentinelVendor
      THEN /\ error' = Some(IF Truthy(p.data.notes)
                              THEN p.data.notes[1]
                              ELSE MsgInvalidFallback)
           /\ extractedData' = None
           /\ UNCHANGED <<isLoading, discrepancyWarning, aiNote>>
      ELSE /\ extractedData' = Some(p.data)
           /\ aiNote' = IF Truthy(p.data.notes) THEN p.data.notes ELSE None
           /\ discrepancyWarning' =
                IF discrepancy(p.data) # None
                  THEN discrepancy(p.data)
                  ELSE discrepancyWarning
           /\ isLoading' = FALSE
           /\ UNCHANGED error

\* lines 472-497 and 505-507, after digitizeInvoice resolved with p.data
handleDigitizeResolved(p) ==
  IF p.isNull
    THEN handleDigitizeCatch(TRUE, MsgTypeError)
    ELSE IF p.data.vendorName = SentinelVendor
      THEN /\ error' = Some(IF Truthy(p.data.notes)
                              THEN p.data.notes[1]
                              ELSE MsgInvalidFallback)
           /\ extractedData' = None
           /\ isLoading' = FALSE
           /\ UNCHANGED <<discrepancyWarning, aiNote>>
      ELSE /\ extractedData' = Some(p.data)
           /\ aiNote' = IF Truthy(p.data.notes) THEN p.data.notes ELSE None
           /\ discrepancyWarning' =
                IF discrepancy(p.data) # None
                  THEN discrepancy(p.data)
                  ELSE discrepancyWarning
           /\ isLoading' = FALSE
           /\ UNCHANGED error

\* a mutant: the two local checks are skipped
handleDigitizeNoLocalChecks ==
  /\ issued < MaxCalls
  /\ isLoading' = TRUE
  /\ error' = None
  /\ extractedData' = None
  /\ discrepancyWarning' = None
  /\ aiNote' = None
  /\ StartCall("app", IF imageFile = None THEN "" ELSE imageFile[1], apiKey, selectedModel)
  /\ lastEvent' = [Ev("digitize") EXCEPT !.held = SlotsHeld]

\* a mutant: the error of the attempt before is kept
handleDigitizeKeepsError ==
  /\ imageFile # None /\ apiKey # ""
  /\ issued < MaxCalls
  /\ isLoading' = TRUE
  /\ extractedData' = None
  /\ discrepancyWarning' = None
  /\ aiNote' = None
  /\ UNCHANGED error
  /\ StartCall("app", imageFile[1], apiKey, selectedModel)
  /\ lastEvent' = [Ev("digitize") EXCEPT !.held = SlotsHeld]

\* a mutant: the AI note of the attempt before is kept
handleDigitizeKeepsNote ==
  /\ imageFile # None /\ apiKey # ""
  /\ issued < MaxCalls
  /\ isLoading' = TRUE
  /\ error' = None
  /\ extractedData' = None
  /\ discrepancyWarning' = None
  /\ UNCHANGED aiNote
  /\ StartCall("app", imageFile[1], apiKey, selectedModel)
  /\ lastEvent' = [Ev("digitize") EXCEPT !.held = SlotsHeld]

\* a mutant: the result, the warning and the note are cleared before the
\* two local checks
handleDigitizeClearsBeforeChecks ==
  IF imageFile = None
    THEN /\ error' = Some(MsgNoFile)
         /\ lastEvent' = Ev("rejected")
         /\ extractedData' = None
         /\ discrepancyWarning' = None
         /\ aiNote' = None
         /\ UNCHANGED <<isLoading, callVars>>
    ELSE IF apiKey = ""
      THEN /\ error' = Some(MsgNoKey)
           /\ lastEvent' = Ev("rejected")
           /\ extractedData' = None
           /\ discrepancyWarning' = None
           /\ aiNote' = None
           /\ UNCHANGED <<isLoading, callVars>>
      ELSE /\ issued < MaxCalls
           /\ extractedData' = None
           /\ discrepancyWarning' = None
           /\ aiNote' = None
           /\ error' = None
           /\ isLoading' = TRUE
           /\ StartCall("app", imageFile[1], apiKey, selectedModel)
           /\ lastEvent' = [Ev("digitize") EXCEPT !.held = SlotsHeld]

\* lines 455-472, up to the await
handleDigitize ==
  IF imageFile = None
    THEN /\ error' = Some(MsgNoFile)
         /\ lastEvent' = Ev("rejected")
         /\ UNCHANGED <<extractedData, isLoading, discrepancyWarning, aiNote, callVars>>
    ELSE IF apiKey = ""
      THEN /\ error' = Some(MsgNoKey)
           /\ lastEvent' = Ev("rejected")
           /\ UNCHANGED <<extractedData, isLoading, discrepancyWarning, aiNote, callVars>>
      ELSE /\ issued < MaxCalls
           /\ extractedData' = None
           /\ discrepancyWarning' = None
           /\ aiNote' = None
           /\ IF digitizeInvoiceThrowsConfig(apiKey)
                THEN /\ error' = Some(MsgConfig)
                     /\ isLoading' = FALSE
                     /\ lastEvent' = Ev("rejected")
                     /\ UNCHANGED callVars
                ELSE /\ error' = None
                     /\ isLoading' = TRUE
                     /\ StartCall("app", imageFile[1], apiKey, selectedModel)
                     /\ lastEvent' = [Ev("digitize") EXCEPT !.held = SlotsHeld]

\* line 552, the Digitize button
ClickDigitize ==
  /\ UNCHANGED <<urlVars, session>>
  /\ DigitizeEnabled
  /\ handleDigitize
  /\ UNCHANGED <<apiKey, selectedModel, imageFile, cameraActive, keyVars,
                 localStorage, pendingBlobs, probe>>

\* a mutant: a file that cannot be read ends the call without a request
EncodeDoneRejectsUnreadable(c, readOk) ==
  /\ UNCHANGED <<urlVars, session>>
  /\ c \in calls
  /\ c.pc = "encoding"
  /\ IF readOk
       THEN /\ calls' = (calls \ {c}) \cup {[c EXCEPT !.pc = "requesting"]}
            /\ outbound' = outbound + 1
            /\ lastEvent' = [Ev("encoded") EXCEPT
                               !.payload = fileToGenerativePart(c.file, readOk).data]
       ELSE /\ calls' = calls \ {c}
            /\ lastEvent' = [Ev("failed") EXCEPT !.origin = "direct"]
            /\ UNCHANGED outbound
  /\ UNCHANGED <<appVars, keyVars, localStorage, issued, pendingBlobs, probe>>

\* geminiService.ts lines 4-20 and 42: the file has been read (or could not be
\* read as a data URL) and the request is sent
EncodeDone(c, readOk) ==
  /\ UNCHANGED <<urlVars, session>>
  /\ c \in calls
  /\ c.pc = "encoding"
  /\ calls' = (calls \ {c}) \cup {[c EXCEPT !.pc = "requesting"]}
  /\ outbound' = outbound + 1
  /\ lastEvent' = [Ev("encoded") EXCEPT
                     !.payload = fileToGenerativePart(c.file, readOk).data]
  /\ UNCHANGED <<appVars, keyVars, localStorage, issued, pendingBlobs, probe>>

\* the request is answered with text: lines 83-91, then the rest of
\* handleDigitize for a call the App made
CallReturns(c, text) ==
  /\ UNCHANGED <<urlVars, session>>
  /\ c \in calls
  /\ c.pc = "requesting"
  /\ calls' = calls \ {c}
  /\ lastEvent' = [Ev("returned") EXCEPT !.origin = c.origin, !.text = Some(text)]
  /\ IF c.origin = "app"
       THEN IF ParseResponse(text).threw
              THEN handleDigitizeCatch(TRUE, ParseResponse(text).message)
              ELSE handleDigitizeResolved(ParseResponse(text))
       ELSE UNCHANGED <<extractedData, isLoading, error, discrepancyWarning, aiNote>>
  /\ UNCHANGED <<apiKey, selectedModel, imageFile, cameraActive, keyVars,
                 localStorage, issued, outbound, pendingBlobs, probe>>

\* a mutant: a failed request is sent again
CallFailsRetries(c, thrown) ==
  /\ UNCHANGED <<urlVars, session>>
  /\ c \in calls
  /\ c.pc = "requesting"
  /\ outbound' = outbound + 1
  /\ lastEvent' = [Ev("failed") EXCEPT !.origin = c.origin, !.thrown = Some(thrown)]
  /\ UNCHANGED <<appVars, keyVars, localStorage, calls, issued, pendingBlobs, probe>>

\* the request fails: generateContent rejects, digitizeInvoice rejects with the
\* same value
CallFails(c, thrown) ==
  /\ UNCHANGED <<urlVars, session>>
  /\ c \in calls
  /\ c.pc = "requesting"
  /\ calls' = calls \ {c}
  /\ lastEvent' = [Ev("failed") EXCEPT !.origin = c.origin, !.thrown = Some(thrown)]
  /\ IF c.origin = "app"
       THEN handleDigitizeCatch(thrown.isError, thrown.message)
       ELSE UNCHANGED <<extractedData, isLoading, error, discrepancyWarning, aiNote>>
  /\ UNCHANGED <<apiKey, selectedModel, imageFile, cameraActive, keyVars,
                 localStorage, issued, outbound, pendingBlobs, probe>>

(***************************************************************************)
(* Calls that do not come from the Digitize button: handleDigitize invoked *)
(* in a state where the button is disabled for want of a file or a key,    *)
(* and digitizeInvoice called by another importer of the service module.   *)
(***************************************************************************)
InvokeDigitize ==
  /\ UNCHANGED <<urlVars, session>>
  /\ imageFile = None \/ apiKey = ""
  /\ handleDigitize
  /\ UNCHANGED <<apiKey, selectedModel, imageFile, cameraActive, keyVars,
                 localStorage, pendingBlobs, probe>>

CallService(file, key, model) ==
  /\ UNCHANGED <<urlVars, session>>
  /\ IF digitizeInvoiceThrowsConfig(key)
       THEN /\ lastEvent' = [Ev("serviceThrew") EXCEPT
                               !.origin = "direct", !.key = key,
                               !.thrown = Some([isError |-> TRUE, message |-> MsgConfig])]
            /\ UNCHANGED callVars
       ELSE /\ issued < MaxCalls
            /\ StartCall("direct", file, key, model)
            /\ lastEvent' = [Ev("serviceCalled") EXCEPT !.origin = "direct", !.key = key]
  /\ UNCHANGED <<appVars, keyVars, localStorage, pendingBlobs, probe>>

(***************************************************************************)
(* The currency functions applied on their own.                            *)
(***************************************************************************)
CurrencyStrings == UNION {[1..n -> Chars] : n \in 0..MaxCodeLen}
CurrencyInputs == {None} \cup {Some(c) : c \in CurrencyStrings}

\* the functions are applied to the string drawn at the start
InitCurrency ==
  /\ Mounted(None, None)
  /\ \E c \in CurrencyInputs : probe = [NoProbe EXCEPT !.input = c]

ProbeGetSafeCurrencyCode ==
  /\ UNCHANGED <<urlVars, session>>
  /\ probe' = [fn |-> "getSafeCurrencyCode", input |-> probe.input, before |-> None,
               threw |-> FALSE, currency |-> getSafeCurrencyCode(probe.input)]
  /\ UNCHANGED <<appVars, keyVars, localStorage, callVars, pendingBlobs, lastEvent>>

\* getSafeCurrencyCode applied to the code it has just returned
ProbeAgain ==
  /\ UNCHANGED <<urlVars, session>>
  /\ probe.fn = "getSafeCurrencyCode"
  /\ probe' = [fn |-> "again", input |-> Some(probe.currency),
               before |-> Some(probe.currency), threw |-> FALSE,
               currency |-> getSafeCurrencyCode(Some(probe.currency))]
  /\ UNCHANGED <<appVars, keyVars, localStorage, callVars, pendingBlobs, lastEvent>>

\* getSafeCurrencyCode applied to a string v that differs from the string of
\* the application before in the case of its letters only
ProbeOtherCase(v) ==
  /\ UNCHANGED <<urlVars, session>>
  /\ probe.fn = "getSafeCurrencyCode"
  /\ probe.input # None
  /\ v # probe.input[1]
  /\ Len(v) = Len(probe.input[1])
  /\ \A i \in 1..Len(v) :
       \/ v[i] = probe.input[1][i]
       \/ \E j \in 1..26 :
            {v[i], probe.input[1][i]} = {LowerAlphabet[j], UpperAlphabet[j]}
  /\ probe' = [fn |-> "otherCase", input |-> Some(v),
               before |-> Some(probe.currency), threw |-> FALSE,
               currency |-> getSafeCurrencyCode(Some(v))]
  /\ UNCHANGED <<appVars, keyVars, localStorage, callVars, pendingBlobs, lastEvent>>

\* ExtractedDataDisplay rendering a result with this currency field
ProbeTableFormatter ==
  /\ UNCHANGED <<urlVars, session>>
  /\ probe' = [fn |-> "table", input |-> probe.input, before |-> None,
               threw |-> tableFormatter([BaseInvoice EXCEPT !.currency = probe.input]).threw,
               currency |-> tableFormatter([BaseInvoice EXCEPT !.currency = probe.input]).currency]
  /\ UNCHANGED <<appVars, keyVars, localStorage, callVars, pendingBlobs, lastEvent>>

\* handleDigitize building the warning for a result with this currency field
ProbeWarningFormatter ==
  /\ UNCHANGED <<urlVars, session>>
  /\ probe' = [fn |-> "warning", input |-> probe.input, before |-> None,
               threw |-> warningFormatter([BaseInvoice EXCEPT !.currency = probe.input]).threw,
               currency |-> warningMessage([BaseInvoice EXCEPT !.currency = probe.input]).stated.currency]
  /\ UNCHANGED <<appVars, keyVars, localStorage, callVars, pendingBlobs, lastEvent>>

(***************************************************************************)
(* Specifications.                                                         *)
(***************************************************************************)
Next ==
  \/ \E k \in ApiKeys : TypeKey(k)
  \/ handleSave
  \/ \E f \in Files : FileSelect(f)
  \/ UseCamera
  \/ CameraCancel
  \/ SnapPhoto
  \/ \E b \in BOOLEAN, f \in Files : BlobDelivered(b, f)
  \/ ClickClear
  \/ ClickDigitize
  \/ \E c \in calls, ok \in BOOLEAN : EncodeDone(c, ok)
  \/ \E c \in calls, t \in ResponseTexts : CallReturns(c, t)
  \/ \E c \in calls, x \in Thrown : CallFails(c, x)

\* the application driven through its user interface: a key is entered, files
\* are selected or captured, digitized and cleared
Spec == Init /\ [][Next]_vars

\* the reading of the file ends (FileReader.onloadend always fires) and every
\* request sent is answered or fails
EncodeAny == \E c \in calls, ok \in BOOLEAN : EncodeDone(c, ok)
SettleAny ==
  \/ \E c \in calls, t \in ResponseTexts : CallReturns(c, t)
  \/ \E c \in calls, x \in Thrown : CallFails(c, x)
CallsComplete == WF_vars(EncodeAny) /\ WF_vars(SettleAny)

NextFair ==
  \/ \E k \in ApiKeys : TypeKey(k)
  \/ handleSave
  \/ \E f \in Files : FileSelect(f)
  \/ ClickClear
  \/ ClickDigitize
  \/ EncodeAny
  \/ SettleAny

\* the application driven through the upload area, the key form and the two
\* buttons, with every call that was started completing; no step of the user
\* is required to happen
SpecFair == Init /\ [][NextFair]_vars /\ CallsComplete

NextSettings ==
  \/ \E m \in ModelChoices : handleModelChange(m)
  \/ \E k \in EditedKeys : TypeKey(k)
  \/ handleSave
  \/ handleEdit
  \/ Reload
  \/ \E f \in Files : FileSelect(f)
  \/ ClickClear
  \/ ClickDigitize
  \/ \E c \in calls, ok \in BOOLEAN : EncodeDone(c, ok)
  \/ \E c \in calls, t \in PlainResponses : CallReturns(c, t)
  \/ \E c \in calls, x \in Thrown : CallFails(c, x)

\* the settings changed and loaded again in a later session, beside the part
\* of the user interface that selects a file, digitizes and clears; the
\* answers are the plain ones
SpecSettings == InitSettings /\ [][NextSettings]_vars

NextDirect ==
  \/ \E k \in ApiKeys : TypeKey(k)
  \/ handleSave
  \/ \E f \in Files : FileSelect(f)
  \/ ClickClear
  \/ ClickDigitize
  \/ \E c \in calls, ok \in BOOLEAN : EncodeDone(c, ok)
  \/ \E c \in calls, t \in ResponseTexts : CallReturns(c, t)
  \/ \E c \in calls, x \in Thrown : CallFails(c, x)
  \/ InvokeDigitize
  \/ \E f \in Files, k \in ApiKeys \cup {""}, m \in ModelChoices : CallService(f, k, m)

\* the handler and the service also called directly, beside the part of the
\* user interface that selects a file, saves a key, digitizes and clears
SpecDirect == Init /\ [][NextDirect]_vars

NextCurrency ==
  \/ ProbeGetSafeCurrencyCode
  \/ ProbeAgain
  \/ \E v \in CurrencyStrings : ProbeOtherCase(v)
  \/ ProbeTableFormatter
  \/ ProbeWarningFormatter

\* the currency functions applied to every string of the bound
SpecCurrency == InitCurrency /\ [][NextCurrency]_vars

(***************************************************************************)
(* Properties.                                                             *)
(***************************************************************************)
ReturnedToApp == lastEvent.op = "returned" /\ lastEvent.origin = "app"
ReturnedObject == ReturnedToApp /\ lastEvent.text[1].kind = "object"
\* the object of the answer handled last
Answer == lastEvent.text[1].value
ReturnedInvoice == ReturnedObject /\ Answer.vendorName # SentinelVendor

RECURSIVE SumTo(_, _)
SumTo(items, n) == IF n = 0 THEN 0 ELSE SumTo(items, n - 1) + items[n].amount
ItemsSum(data) == SumTo(data.lineItems[1], Len(data.lineItems[1]))
Gap(a, b) == IF a >= b THEN a - b ELSE b - a
Cents(n) == IF n % 10 >= 5 THEN n \div 10 + 1 ELSE n \div 10

\* C1: after handleDigitize has handled a successful answer that is not the
\* sentinel and has line items, a tax and a total, the discrepancy warning is
\* set exactly when |sum of the amounts + tax - total| exceeds 0.01, and then
\* it names the computed total and the stated total.
C1_WarningIffDiscrepancy ==
  (ReturnedInvoice /\ Answer.lineItems # None /\ Answer.taxAmount # None)
    => /\ (discrepancyWarning # None)
            <=> (Gap(ItemsSum(Answer) + Answer.taxAmount[1], Answer.totalAmount) > Tolerance)
       /\ discrepancyWarning # None
            => /\ discrepancyWarning[1].calculated.cents
                    = Cents(ItemsSum(Answer) + Answer.taxAmount[1])
               /\ discrepancyWarning[1].stated.cents = Cents(Answer.totalAmount)

\* C2: an answer whose vendorName is "Invalid Document" is never the value of
\* the result slot; after it is handled the error slot holds its notes when
\* they are present and not empty, else the fallback message, and the result,
\* the discrepancy warning and the AI note are empty.
C2_SentinelIsError ==
  /\ extractedData # None => extractedData[1].vendorName # SentinelVendor
  /\ (ReturnedObject /\ Answer.vendorName = SentinelVendor)
       => /\ error = Some(IF Answer.notes # None /\ Answer.notes[1] # ""
                            THEN Answer.notes[1]
                            ELSE MsgInvalidFallback)
          /\ extractedData = None
          /\ discrepancyWarning = None
          /\ aiNote = None

\* C3: at most one request of the App is in flight at any time, and the
\* Digitize button is never enabled while a call the App made has not settled.
C3_SingleCallInFlight ==
  /\ Cardinality({c \in calls : c.origin = "app" /\ c.pc = "requesting"}) <= 1
  /\ DigitizeEnabled => {c \in calls : c.origin = "app"} = {}

AppCallIds(cs) == {c.id : c \in {d \in cs : d.origin = "app"}}

\* C4: handleDigitize invoked with no file selected or with an empty key sets
\* the error slot to its local message and starts no call; digitizeInvoice
\* given an empty key throws the configuration error and neither reads the
\* file nor sends a request, and it goes on only with a key that is not empty.
C4_LocalFailure ==
  /\ [][/\ (imageFile = None \/ apiKey = "") => AppCallIds(calls') \subseteq AppCallIds(calls)
        /\ (lastEvent'.op = "rejected" /\ (imageFile = None \/ apiKey = ""))
             => /\ error' = Some(IF imageFile = None THEN MsgNoFile ELSE MsgNoKey)
                /\ UNCHANGED <<calls, issued, outbound>>
        /\ (lastEvent'.op = "serviceThrew")
             => UNCHANGED <<calls, issued, outbound>>]_vars
  /\ [](lastEvent.op = "serviceThrew"
          => lastEvent.key = "" /\ lastEvent.thrown = Some([isError |-> TRUE, message |-> MsgConfig]))
  /\ [](lastEvent.op = "serviceCalled" => lastEvent.key # "")

C4_Witness ==
  /\ lastEvent.op = "rejected"
  /\ imageFile # None
  /\ apiKey = ""
  /\ error = Some(MsgNoKey)
  /\ calls = {}

\* C5: the step that installs a file clears the result, the error, the
\* discrepancy warning and the AI note, and all four are empty whenever a call
\* for the selected file is started.
C5_SelectionClears ==
  /\ lastEvent.op \in {"select", "capture"}
       => /\ imageFile # None
          /\ extractedData = None /\ error = None
          /\ discrepancyWarning = None /\ aiNote = None
  /\ lastEvent.op = "digitize"
       => /\ extractedData = None /\ error = None
          /\ discrepancyWarning = None /\ aiNote = None

C5_Witness ==
  /\ lastEvent.op \in {"select", "capture"}
  /\ lastEvent.held
  /\ imageFile # None
  /\ extractedData = None

\* the expected shape: an object with the required fields of the declared
\* schema (those of them the model represents as optional)
ValidShape(text) ==
  /\ text.kind = "object"
  /\ text.value.lineItems # None
  /\ text.value.currency # None

\* C6: an answer that is not valid against the expected shape makes
\* digitizeInvoice fail with the parse error, which is no transport message:
\* the error slot holds it and the answer is not the result.
C6_ShapeErrorsRejected ==
  /\ MsgParse \notin TransportMessages
  /\ (ReturnedToApp /\ ~ValidShape(lastEvent.text[1]))
       => /\ error = Some(MsgParse)
          /\ extractedData = None

\* C7: right after a reset no file is selected, the result, the error, the
\* discrepancy warning and the AI note are empty, the loading flag is false
\* and the camera is inactive, also when a call was in flight.
C7_ResetIsIdle ==
  lastEvent.op = "reset"
    => /\ imageFile = None
       /\ extractedData = None /\ error = None
       /\ discrepancyWarning = None /\ aiNote = None
       /\ ~isLoading
       /\ ~cameraActive

C7_Witness ==
  /\ lastEvent.op = "reset"
  /\ \E c \in calls : c.origin = "app" /\ c.pc = "requesting"
  /\ ~isLoading

Settled == ~isLoading /\ (extractedData # None \/ error # None)
CallSettledInApp == lastEvent.op \in {"returned", "failed"} /\ lastEvent.origin = "app"

\* C8 as stated: when a call of the App settles the loading flag is false and a
\* result or an error is present, and Processing is entered only from a state
\* with a file selected and no result.
C8_ProcessingOnlyFromReady ==
  /\ [](CallSettledInApp => Settled)
  /\ [][(~isLoading /\ isLoading') => (imageFile # None /\ extractedData = None)]_vars

\* C8 as amended: when a call of the App settles the loading flag is false and
\* a result or an error is present, and Processing is entered only from a
\* state with a file selected and a key present, in which a result or an error
\* of an earlier attempt may be held; entering clears them.
C8_Lifecycle ==
  /\ [](CallSettledInApp => Settled)
  /\ [][(~isLoading /\ isLoading')
          => /\ imageFile # None /\ apiKey # ""
             /\ extractedData' = None /\ error' = None]_vars

C8_Witness ==
  /\ lastEvent.op = "returned"
  /\ issued = 1
  /\ imageFile # None
  /\ extractedData # None
  /\ ~isLoading

\* C9: when a successful answer that is not the sentinel has no taxAmount, the
\* tax counts as 0: the discrepancy warning is set exactly when
\* |sum of the amounts - total| exceeds 0.01.
C9_MissingTaxIsZero ==
  (ReturnedInvoice /\ Answer.lineItems # None /\ Answer.taxAmount = None)
    => ((discrepancyWarning # None)
          <=> (Gap(ItemsSum(Answer), Answer.totalAmount) > Tolerance))

AsciiLetters ==
  {LowerAlphabet[i] : i \in 1..26} \cup {UpperAlphabet[i] : i \in 1..26}
IsThreeLetterCode(input) == input # None /\ input[1] \in [1..3 -> AsciiLetters]
UpperCased(s) ==
  [i \in 1..Len(s) |->
     IF \E j \in 1..26 : s[i] = LowerAlphabet[j]
       THEN UpperAlphabet[CHOOSE j \in 1..26 : s[i] = LowerAlphabet[j]]
       ELSE s[i]]

\* C10: getSafeCurrencyCode gives "MYR" for a missing or empty input and for
\* every string that is not exactly three ASCII letters, and the input in
\* upper case otherwise; neither it nor a formatter built from it raises an
\* error, and the formatter of the result table and the formatter of the
\* warning message carry that code.
C10_CurrencyFallback ==
  probe.fn # "none"
    => /\ ~probe.threw
       /\ probe.currency = IF IsThreeLetterCode(probe.input)
                             THEN UpperCased(probe.input[1])
                             ELSE <<"M", "Y", "R">>

C10_Witness ==
  /\ probe.fn = "warning"
  /\ probe.input # None
  /\ Len(probe.input[1]) = 2
  /\ probe.currency = <<"M", "Y", "R">>

\* C11: every object URL created for a file that is no longer the selected
\* file has been revoked, so the only URL not revoked is that of the selected
\* file, if there is one.
C11_UrlsReleased ==
  /\ imageUrl = None <=> imageFile = None
  /\ objectUrls = {imageUrl[i] : i \in DOMAIN imageUrl}

\* C12: whenever the loading flag is false and a discrepancy warning is held,
\* the warning is on screen, whatever the error slot holds.
C12_WarningVisible ==
  (~isLoading /\ discrepancyWarning # None) => WarningShown

\* C13: when the call fails with an Error of message m the error slot is
\* exactly m, when it fails with another value the error slot is the fixed
\* message; the result slot is empty and the loading flag is false.
C13_FailureSurfaced ==
  (lastEvent.op = "failed" /\ lastEvent.origin = "app")
    => /\ error = Some(IF lastEvent.thrown[1].isError
                         THEN lastEvent.thrown[1].message
                         ELSE "An unknown error occurred during digitization.")
       /\ extractedData = None
       /\ ~isLoading

\* C14: an accepted trigger starts one invocation of the service, an
\* invocation sends one request, and the step in which a call settles (a
\* failure, an answer of a wrong shape or the sentinel included) starts no
\* invocation and sends no request: the requests sent never outnumber the
\* accepted triggers.
C14_NoRetry ==
  /\ [](outbound <= issued)
  /\ [][issued' # issued
          => /\ issued' = issued + 1
             /\ lastEvent'.op = "digitize"
             /\ Cardinality(calls') = Cardinality(calls) + 1]_vars
  /\ [][outbound' # outbound
          => /\ outbound' = outbound + 1
             /\ \E c \in calls :
                  /\ c.pc = "encoding"
                  /\ calls' = (calls \ {c}) \cup {[c EXCEPT !.pc = "requesting"]}]_vars
  /\ [][lastEvent'.op \in {"returned", "failed"}
          => /\ UNCHANGED <<issued, outbound>>
             /\ calls' \subseteq calls]_vars

C14_Witness ==
  /\ lastEvent.op = "failed"
  /\ issued = 1
  /\ outbound = 1
  /\ calls = {}
  /\ error # None

\* C15: no step of the user within a session takes a call out of flight: a
\* call stays until the step in which it returns or fails, and that step runs
\* the completion handler on the state of that moment (the loading flag
\* becomes false and a result or an error is held), also after a reset, a
\* file selection, a model change or a key save.
C15_NoCancellation ==
  [][session' = session
       => \A c \in calls :
            \/ c \in calls'
            \/ c.pc = "encoding" /\ [c EXCEPT !.pc = "requesting"] \in calls'
            \/ /\ c.pc = "requesting"
               /\ calls' = calls \ {c}
               /\ lastEvent'.op \in {"returned", "failed"}
               /\ ~isLoading'
               /\ extractedData' # None \/ error' # None]_vars

\* a result arrives after a reset and is shown with no file selected
C15_Witness ==
  /\ lastEvent.op = "returned"
  /\ imageFile = None
  /\ extractedData # None
  /\ session = 1

\* C16: the model of every request sent is one of the three models of the
\* fixed set, whatever was stored under the model key.
C16_ModelInFixedSet ==
  \A c \in calls :
    c.pc = "requesting"
      => c.model \in {"gemini-2.5-pro", "gemini-2.5-flash", "gemini-flash-lite-latest"}

\* C17: a new session over the same local storage starts with the credential
\* and the model of the session before (the credential saved, the model
\* selected), and nothing is stored under a key other than gemini-api-key and
\* gemini-model-selection.
C17_SettingsRoundTrip ==
  /\ [][session' # session
          => /\ apiKey' = apiKey
             /\ selectedModel' = selectedModel
             /\ localStorage' = localStorage]_vars
  /\ [](DOMAIN localStorage \subseteq {"gemini-api-key", "gemini-model-selection"})
  /\ [](apiKey # "" => /\ "gemini-api-key" \in DOMAIN localStorage
                       /\ localStorage["gemini-api-key"] = apiKey)

C17_Witness ==
  /\ session = 2
  /\ lastEvent.op = "init"
  /\ apiKey = "k1"
  /\ selectedModel = "gemini-2.5-pro"
  /\ DOMAIN localStorage = {"gemini-api-key", "gemini-model-selection"}

\* C18: while the loading flag is true the error slot, the result slot and the
\* discrepancy warning are empty.
C18_NoIllegalFlags ==
  isLoading => (error = None /\ extractedData = None /\ discrepancyWarning = None)

\* loading, with a call of an earlier attempt still in flight
C18_Witness ==
  /\ isLoading
  /\ Cardinality({c \in calls : c.origin = "app"}) = 2
  /\ error = None

\* C19: the step of an accepted trigger is taken with a file and a credential
\* present; it sets the loading flag, empties the error, the result, the
\* discrepancy warning and the AI note, leaves the file, the credential and the
\* model as they are, and starts the invocation for them without a request
\* being sent in that step.
C19_AcceptedTriggerFrame ==
  [][issued' # issued
       => /\ imageFile # None /\ apiKey # ""
          /\ isLoading'
          /\ error' = None /\ extractedData' = None
          /\ discrepancyWarning' = None /\ aiNote' = None
          /\ UNCHANGED <<imageFile, apiKey, selectedModel, outbound>>
          /\ \E c \in calls' \ calls :
               /\ c.file = imageFile[1] /\ c.apiKey = apiKey /\ c.model = selectedModel
               /\ c.pc = "encoding"]_vars

\* a trigger accepted while something of the attempt before was held
C19_Witness ==
  /\ lastEvent.op = "digitize"
  /\ lastEvent.held
  /\ isLoading
  /\ aiNote = None

\* C20: no file selection takes effect while a request is in flight: right
\* after a file is installed by an upload, a drop or a capture, no call of the
\* App is waiting for its answer.
C20_NoSelectionInFlight ==
  lastEvent.op \in {"select", "capture"}
    => \A c \in calls : c.origin = "app" => c.pc # "requesting"

\* C21: a result or a discrepancy warning is held only while a file is
\* selected, and the outcome of a call whose file has been cleared since does
\* not appear in the result, error or warning slots: after a call of the App
\* settles with no file selected, the three slots are empty.
C21_ResultOfCurrentFile ==
  /\ (extractedData # None \/ discrepancyWarning # None) => imageFile # None
  /\ (CallSettledInApp /\ imageFile = None)
       => (extractedData = None /\ error = None /\ discrepancyWarning = None)

C23_LoadingIffInFlight ==
  isLoading <=> (\E c \in calls : c.origin = "app")

\* C24: a discrepancy warning is held only with a result, and it is the one
\* computed from the line items, the tax and the total of that result; an AI
\* note is held only with a result, and it is the notes of that result.
C24_WarningOfHeldResult ==
  /\ discrepancyWarning # None
       => /\ extractedData # None
          /\ extractedData[1].lineItems # None
          /\ extractedData[1].taxAmount # None
          /\ Gap(ItemsSum(extractedData[1]) + extractedData[1].taxAmount[1],
                 extractedData[1].totalAmount) > Tolerance
          /\ discrepancyWarning[1].calculated.cents
               = Cents(ItemsSum(extractedData[1]) + extractedData[1].taxAmount[1])
          /\ discrepancyWarning[1].stated.cents = Cents(extractedData[1].totalAmount)
  /\ aiNote # None
       => /\ extractedData # None
          /\ extractedData[1].notes = aiNote

\* C25: with every call completing, every attempt that was accepted comes to
\* its end, the step that ends it (a result, the sentinel rejection or a
\* thrown error) leaves the loading flag false, and the loading flag never
\* stays true for ever.
C25_LoadingEnds ==
  /\ \A i \in 1..MaxCalls :
       (\E c \in calls : c.id = i /\ c.origin = "app")
         ~> (CallSettledInApp /\ ~isLoading /\ ~(\E c \in calls : c.id = i))
  /\ isLoading ~> ~isLoading
  /\ [](CallSettledInApp => ~isLoading)

\* the second attempt has ended with the sentinel rejection
C25_Witness ==
  /\ ReturnedObject
  /\ Answer.vendorName = SentinelVendor
  /\ issued = MaxCalls
  /\ calls = {}
  /\ ~isLoading

\* a step of handleDigitize that ended at one of its two local checks
RejectedStep ==
  /\ lastEvent'.op = "rejected"
  /\ imageFile = None \/ apiKey = ""
  /\ UNCHANGED <<keyVars, localStorage>>

\* C26: a trigger rejected locally (no file, or no key) changes the error slot
\* only: the file, the result, the discrepancy warning, the AI note, the
\* loading flag, the key and the model are left as they were, and so are the
\* calls.
C26_RejectionFrame ==
  [][RejectedStep
       => /\ error' = Some(IF imageFile = None THEN MsgNoFile ELSE MsgNoKey)
          /\ UNCHANGED <<imageFile, extractedData, discrepancyWarning, aiNote,
                         isLoading, apiKey, selectedModel, cameraActive,
                         callVars, urlVars>>]_vars

\* a trigger was rejected for want of a file while the answer of a call that
\* outlived a reset was held, and the answer is still held
C26_Witness ==
  /\ lastEvent.op = "rejected"
  /\ error = Some(MsgNoFile)
  /\ extractedData # None
  /\ apiKey # ""

\* a step within a session that changes the model or the key, or stores one
SettingsStep ==
  /\ session' = session
  /\ selectedModel' # selectedModel \/ apiKey' # apiKey \/ localStorage' # localStorage

\* C27: a model change or a key save leaves the file, the result, the error,
\* the discrepancy warning, the AI note and the loading flag as they were and
\* does not touch the calls; a call is made with the key and the model of the
\* moment of its trigger and keeps them while it is in flight.
C27_SettingsFrame ==
  /\ [][SettingsStep
          => UNCHANGED <<imageFile, extractedData, error, discrepancyWarning,
                         aiNote, isLoading, cameraActive, callVars>>]_vars
  /\ [][session' = session
          => \A d \in calls' :
               IF \E c \in calls : c.id = d.id
                 THEN \E c \in calls :
                        /\ c.id = d.id
                        /\ d.apiKey = c.apiKey
                        /\ d.model = c.model
                        /\ d.file = c.file
                 ELSE /\ d.apiKey = apiKey
                      /\ d.model = selectedModel
                      /\ d.file = imageFile[1]]_vars

\* the request of a call is out while another key has been saved and another
\* model selected
C27_Witness ==
  /\ isLoading
  /\ \E c \in calls :
       /\ c.pc = "requesting"
       /\ c.apiKey = "k1"
       /\ apiKey = "k2"
       /\ c.model # selectedModel

\* C28: reading the file never ends a call: every call that is reading its
\* file stays until its request is sent, the step that ends the reading sends
\* exactly one request, with the data of the file or with empty data, and
\* leaves the slots of the App as they were; every call started with a key
\* that is not empty sends one request and no more.
C28_EncodingNeverFails ==
  /\ [][\A c \in calls :
          c.pc = "encoding"
            => \/ c \in calls'
               \/ /\ [c EXCEPT !.pc = "requesting"] \in calls'
                  /\ outbound' = outbound + 1
                  /\ lastEvent'.op = "encoded"
                  /\ lastEvent'.payload \in {<<>>, <<c.file>>}
                  /\ UNCHANGED <<error, extractedData, isLoading>>]_vars
  /\ [](outbound = issued - Cardinality({c \in calls : c.pc = "encoding"}))
  /\ [](\A c \in calls : c.apiKey # "")

\* a call made directly with a key has sent its request with empty image data
C28_Witness ==
  /\ lastEvent.op = "encoded"
  /\ lastEvent.payload = <<>>
  /\ outbound = 1
  /\ \E c \in calls : c.origin = "direct" /\ c.pc = "requesting"

UpperAsciiLetters ==
  {"A", "B", "C", "D", "E", "F", "G", "H", "I", "J", "K", "L", "M",
   "N", "O", "P", "Q", "R", "S", "T", "U", "V", "W", "X", "Y", "Z"}

\* C29: every result of getSafeCurrencyCode is three upper-case ASCII letters;
\* applied to its own result it returns that result; applied to two strings
\* that differ in the case of their letters only it returns the same code.
C29_CurrencyIdempotent ==
  /\ probe.fn \in {"getSafeCurrencyCode", "again", "otherCase"}
       => /\ Len(probe.currency) = 3
          /\ \A i \in 1..3 : probe.currency[i] \in UpperAsciiLetters
  /\ probe.fn \in {"again", "otherCase"} => probe.currency = probe.before[1]

\* a code in mixed case and the same letters in another case gave the same
\* code, which is none of the two strings and not the default
C29_Witness ==
  /\ probe.fn = "otherCase"
  /\ probe.currency # DefaultCurrency
  /\ probe.currency # probe.input[1]
  /\ probe.currency = probe.before[1]

====
